---- MODULE Spec2Model ----
(***************************************************************************)
(* Credential and session security subsystem of Arecanut Manager Pro:      *)
(* key-file artifacts, session tokens, the session store with its          *)
(* device-limit admission, touch, termination and revocation.              *)
(*                                                                         *)
(* Time is counted in units of 12 hours: the 24-hour session record        *)
(* expiry is 2 units, the 30-day token TTL is 60, the 365-day key-file     *)
(* validity is 730 and the 100-year superadmin TTL is 73000.               *)
(***************************************************************************)
EXTENDS Integers, FiniteSets, Sequences, TLC

\* ------------------------------------------------------------------ bounds
MaxTime == 2
MaxSessions == 2
MaxAdmissions == 3
MaxKeyFiles == 1
MaxRateCount == 11

Users == {"u1", "u2"}
Roles == {"user", "admin", "superadmin"}
DeviceLimits == {1, 2}
Passwords == {"pw1", "pw2"}

\* ------------------------------------------------------- program constants
SessionRecordTTL == 2
TokenTTLUser == 60
TokenTTLSuperadmin == 73000
KeyFileDefaultTTL == 730
MinKeyFileSize == 107
HeaderSize == 106
DefaultDeviceLimit == 3
KeyFileVersion == 1

LoginLimit == 5
InitLimit == 10
RateWindow == 1

\* a Date field that has not been set (terminatedAt, lastLoginAt, ...)
NullDate == -1

NoToken == [none |-> TRUE]
NoKeyFile == [none |-> TRUE]
NullClaims == [null |-> TRUE]
NoHash == [none |-> TRUE]

\* ----------------------------------------------------------- crypto.js
\* pbkdf2(MASTER_KEY, salt): one key per salt
deriveKey(salt) == [kdf |-> salt]

generateHMAC(data, key) == [hmac |-> data, key |-> key]

verifyHMAC(data, signature, key) == generateHMAC(data, key) = signature

\* AES-256-GCM: the ciphertext depends on plaintext, key and iv; the tag
\* authenticates that ciphertext.
Encrypt(pt, key, iv) == [pt |-> pt, key |-> key, iv |-> iv]

AuthTagOf(ct) == [gcm |-> ct]

IsCiphertext(x) == DOMAIN x = {"pt", "key", "iv"}

\* a decipher that does not compare the tag
DecryptOKIgnoringTag(ct, key, iv, tag) ==
    /\ IsCiphertext(ct)
    /\ ct.key = key
    /\ ct.iv = iv

\* decipher.final() throws unless the tag matches ciphertext, key and iv
DecryptOK(ct, key, iv, tag) ==
    /\ IsCiphertext(ct)
    /\ ct.key = key
    /\ ct.iv = iv
    /\ tag = AuthTagOf(ct)

\* JSON.stringify / JSON.parse of a payload object
JsonStringify(obj) == [json |-> obj]

JsonParse(text) == text.json

\* Date#toISOString / new Date(iso)
ToISOString(t) == [iso |-> t]

DateParse(s) == s.iso

\* x || d for a string field, a number field and an array field
OrString(r, f, d) == IF f \in DOMAIN r /\ r[f] # "" THEN r[f] ELSE d

OrNumber(r, f, d) == IF f \in DOMAIN r /\ r[f] # 0 THEN r[f] ELSE d

OrOther(r, f, d) == IF f \in DOMAIN r THEN r[f] ELSE d

\* a generateKeyFile whose device-limit default is 5
KeyFileDefaultDeviceLimit5(userData) == OrNumber(userData, "deviceLimit", 5)

\* userData.deviceLimit || 3
KeyFileDeviceLimit(userData) == OrNumber(userData, "deviceLimit", DefaultDeviceLimit)

\* the payload object built by generateKeyFile; rnd is the fresh randomness
\* (keyId, salt, iv) drawn by the call
KeyFilePayload(userData, t, rnd) ==
    [ userId      |-> OrOther(userData, "userId", "undefined"),
      username    |-> OrOther(userData, "username", "undefined"),
      email       |-> OrString(userData, "email", ""),
      role        |-> OrString(userData, "role", "user"),
      deviceLimit |-> KeyFileDeviceLimit(userData),
      createdAt   |-> ToISOString(t),
      expiresAt   |-> OrOther(userData, "expiresAt", ToISOString(t + KeyFileDefaultTTL)),
      permissions |-> OrOther(userData, "permissions", <<"read", "write">>),
      keyId       |-> rnd.keyId,
      version     |-> "1.0" ]

generateKeyFile(userData, t, rnd) ==
    LET payloadBuffer == JsonStringify(KeyFilePayload(userData, t, rnd))
        encryptionKey == deriveKey(rnd.salt)
        encrypted     == Encrypt(payloadBuffer, encryptionKey, rnd.iv)
        hmacKey       == deriveKey(<<rnd.salt, "hmac">>)
    IN  [ magic     |-> "ARECAKEY",
          version   |-> KeyFileVersion,
          salt      |-> rnd.salt,
          iv        |-> rnd.iv,
          authTag   |-> AuthTagOf(encrypted),
          signature |-> generateHMAC(encrypted, hmacKey),
          encrypted |-> encrypted,
          size      |-> HeaderSize + Cardinality(DOMAIN payloadBuffer.json) ]

\* an expiry test that does not exempt the superadmin role
KeyFileExpiredNoRoleCheck(payload, t) == DateParse(payload.expiresAt) < t

\* the expiry test of validateKeyFile on a decrypted payload
KeyFileExpired(payload, t) ==
    payload.role # "superadmin" /\ DateParse(payload.expiresAt) < t

validateKeyFile(kf, t) ==
    IF kf.size < MinKeyFileSize
    THEN [valid |-> FALSE, error |-> "Invalid key file: Too small"]
    ELSE IF kf.magic # "ARECAKEY"
    THEN [valid |-> FALSE, error |-> "Invalid key file: Bad magic"]
    ELSE IF kf.version # KeyFileVersion
    THEN [valid |-> FALSE, error |-> "Invalid key file: Unsupported version"]
    ELSE IF ~verifyHMAC(kf.encrypted, kf.signature, deriveKey(<<kf.salt, "hmac">>))
    THEN [valid |-> FALSE, error |-> "Invalid key file: Signature mismatch"]
    ELSE IF ~DecryptOK(kf.encrypted, deriveKey(kf.salt), kf.iv, kf.authTag)
    THEN [valid |-> FALSE, error |-> "Unsupported state or unable to authenticate data"]
    ELSE LET payload == JsonParse(kf.encrypted.pt)
         IN  IF KeyFileExpired(payload, t)
             THEN [valid |-> FALSE, error |-> "Key file has expired"]
             ELSE [valid |-> TRUE, data |-> payload]

\* one duration for every role
getSessionDurationFlat(role) == TokenTTLUser

getSessionDuration(role) ==
    IF role = "superadmin" THEN TokenTTLSuperadmin ELSE TokenTTLUser

\* expiresIn = NullDate stands for the default null
generateSessionToken(sessionData, expiresIn, t, jti) ==
    LET duration == IF expiresIn # NullDate THEN expiresIn
                    ELSE getSessionDuration(sessionData.role)
    IN  [ payload |-> [ userId            |-> sessionData.userId,
                        role              |-> sessionData.role,
                        deviceFingerprint |-> sessionData.deviceFingerprint,
                        iat               |-> t,
                        exp               |-> t + duration,
                        neverExpires      |-> (sessionData.role = "superadmin"),
                        jti               |-> jti ],
          tag     |-> "ok" ]

\* the expiry test of validateSessionToken on decrypted claims
TokenExpired(payload, t) == ~payload.neverExpires /\ payload.exp < t

validateSessionToken(token, t) ==
    IF token = NoToken \/ token.tag # "ok" THEN NullClaims
    ELSE IF TokenExpired(token.payload, t) THEN NullClaims
    ELSE token.payload

\* a token whose bytes were altered in transit or storage
CorruptToken(token) == [token EXCEPT !.tag = "bad"]

\* sha256 of the declared device attributes
generateDeviceFingerprint(deviceInfo) == <<"sha256", deviceInfo>>

hashPassword(password, salt) == [salt |-> salt, hash |-> <<password, salt>>]

verifyPassword(password, storedHash) == <<password, storedHash.salt>> = storedHash.hash

\* ---------------------------------------------------------------- state
VARIABLES
    users,      \* principal records, by id (the username)
    sessions,   \* the session collection: a set of session records
    tokens,     \* the bearer tokens handed to clients so far
    keyFiles,   \* the key-file artifacts handed to clients so far
    nextId,     \* source of fresh session/token ids (randomUUID)
    nextKeyId,  \* source of fresh key-file ids, salts and ivs
    now,        \* the clock
    pc,         \* where each login request in flight stands in its handler
    loc,        \* the local variables of each login request in flight
    bench,      \* a caller of the crypto service: its inputs and results
    rateLimitMap, \* the limiter's record per client address: count and resetAt
    attempts    \* what the clients of the limited routes sent and were answered

store == <<users, sessions, tokens, keyFiles, nextId, nextKeyId, now>>

vars == <<users, sessions, tokens, keyFiles, nextId, nextKeyId, now, pc, loc, bench,
         rateLimitMap, attempts>>

\* a step of the store alone: no request is in flight, no crypto call pending
OnlyStore == UNCHANGED <<pc, loc, bench, rateLimitMap, attempts>>

UserOrder == <<"u1", "u2">>

DeviceOrder == <<"da", "db", "dc">>

Devices == {DeviceOrder[i] : i \in 1..Len(DeviceOrder)}

Fresh(n) == [keyId |-> n, salt |-> n, iv |-> n]

\* the fields a controller passes to generateKeyFile for principal u
KeyFileFieldsOf(u, usr, expiresAt) ==
    [ userId      |-> u,
      username    |-> u,
      email       |-> "",
      role        |-> usr.role,
      permissions |-> <<"read", "write">>,
      deviceLimit |-> usr.deviceLimit,
      expiresAt   |-> ToISOString(expiresAt) ]

\* ------------------------------------------------------------ Session.js
terminate(s, reason, t) ==
    [s EXCEPT !.isActive = FALSE, !.terminatedAt = t, !.terminatedReason = reason]

\* a touch that also renews the expiry
updateActivityRenewing(s, t) ==
    [s EXCEPT !.lastActivityAt = t, !.expiresAt = t + SessionRecordTTL]

updateActivity(s, t) == [s EXCEPT !.lastActivityAt = t]

\* the filter { isActive: true, $or: [neverExpires, expiresAt > now] }
ActiveFilter(s, t) == s.isActive /\ (s.neverExpires \/ s.expiresAt > t)

getActiveSessionsForUser(S, u, t) == {s \in S : s.user = u /\ ActiveFilter(s, t)}

countActiveDevices(S, u, t) ==
    {s.deviceFingerprint : s \in {x \in S : x.user = u /\ ActiveFilter(x, t)}}

terminateAllForUser(S, u, reason, t) ==
    {IF s.user = u /\ s.isActive THEN terminate(s, reason, t) ELSE s : s \in S}

\* findOne({user, isActive: true}).sort({createdAt: 1}): any record of least
\* createdAt (the order among equal timestamps is the store's)
OldestCandidates(S, u) ==
    LET act == {s \in S : s.user = u /\ s.isActive}
    IN  {s \in act : \A o \in act : s.createdAt <= o.createdAt}

\* an eviction that records the reason logout
terminateOldestSessionAsLogout(S, u, t) ==
    IF OldestCandidates(S, u) = {} THEN {S}
    ELSE {(S \ {v}) \cup {terminate(v, "logout", t)} : v \in OldestCandidates(S, u)}

\* the session sets terminateOldestSession can leave behind
terminateOldestSession(S, u, t) ==
    IF OldestCandidates(S, u) = {} THEN {S}
    ELSE {(S \ {v}) \cup {terminate(v, "device_limit", t)} : v \in OldestCandidates(S, u)}

\* the sessions listed for the administrators
getActiveSessions(S, t) == {s \in S : ActiveFilter(s, t)}

\* the aggregate over the matched sessions, one group per principal
getSessionStats(S, t) ==
    {[ userId       |-> u,
       sessionCount |-> Cardinality({s \in S : s.user = u /\ ActiveFilter(s, t)}),
       devices      |-> {s.deviceFingerprint : s \in {x \in S : x.user = u /\ ActiveFilter(x, t)}} ] :
        u \in {s.user : s \in {x \in S : ActiveFilter(x, t)}}}

\* Session.create with the schema defaults
NewSession(u, token, fp, expiresAt, t, id) ==
    [ id                |-> id,
      user              |-> u,
      sessionToken      |-> token,
      deviceFingerprint |-> fp,
      isActive          |-> TRUE,
      createdAt         |-> t,
      lastActivityAt    |-> t,
      expiresAt         |-> expiresAt,
      neverExpires      |-> FALSE,
      terminatedAt      |-> NullDate,
      terminatedReason  |-> "null" ]

\* ------------------------------------------------------------- User.js
setPassword(usr, password, salt) ==
    [usr EXCEPT !.passwordHash = hashPassword(password, salt)]

\* a comparison that accepts any password
validatePasswordAny(usr, password) == TRUE

validatePassword(usr, password) ==
    IF usr.passwordHash = NoHash THEN FALSE
    ELSE verifyPassword(password, usr.passwordHash)

\* a lookup without the keyFileRevoked: false filter
findByKeyFileIdIgnoringRevoked(U, keyId) ==
    {u \in DOMAIN U : U[u].keyFileId = keyId /\ U[u].isActive}

findByKeyFileId(U, keyId) ==
    {u \in DOMAIN U : U[u].keyFileId = keyId /\ ~U[u].keyFileRevoked /\ U[u].isActive}

revokeKeyFile(usr, reason, t) ==
    [usr EXCEPT !.keyFileRevoked = TRUE, !.keyFileRevokedAt = t,
                !.keyFileRevokedReason = reason]

\* ---------------------------------------------------- middleware: protect
\* a lookup without the isActive: true filter
ProtectLookupIgnoringActive(S, token, t) ==
    {s \in S : s.sessionToken = token /\ s.expiresAt > t}

\* Session.findOne({ sessionToken, isActive: true, expiresAt: { $gt: now } })
ProtectLookup(S, token, t) ==
    {s \in S : s.sessionToken = token /\ s.isActive /\ s.expiresAt > t}

\* the outcome of protect: status, error text, the claims attached to the
\* request and the session collection after the touch
protect(S, token, t) ==
    LET decoded == validateSessionToken(token, t)
        found   == ProtectLookup(S, token, t)
    IN  IF token = NoToken
        THEN [status |-> 401, error |-> "No authentication token provided",
              user |-> NullClaims, sessions |-> S]
        ELSE IF decoded = NullClaims
        THEN [status |-> 401, error |-> "Invalid or expired token",
              user |-> NullClaims, sessions |-> S]
        ELSE IF found = {}
        THEN [status |-> 401, error |-> "Session expired or invalidated",
              user |-> NullClaims, sessions |-> S]
        ELSE [status |-> 200, error |-> "",
              user |-> decoded,
              sessions |-> {IF s \in found THEN updateActivity(s, t) ELSE s : s \in S}]

requireRole(claims, roles) ==
    IF claims = NullClaims
    THEN [status |-> 401, error |-> "Authentication required"]
    ELSE IF claims.role \notin roles
    THEN [status |-> 403, error |-> "Access denied"]
    ELSE [status |-> 200, error |-> ""]

PresentableTokens == tokens \cup {CorruptToken(k) : k \in tokens} \cup {NoToken}

\* one byte changed in a region of an artifact, and a truncated artifact
TamperRegions == {"magic", "version", "salt", "iv", "authTag", "signature", "encrypted"}

Tamper(kf, region) ==
    CASE region = "magic"     -> [kf EXCEPT !.magic = "XRECAKEY"]
      [] region = "version"   -> [kf EXCEPT !.version = KeyFileVersion + 1]
      [] region = "salt"      -> [kf EXCEPT !.salt = 0 - kf.salt]
      [] region = "iv"        -> [kf EXCEPT !.iv = 0 - kf.iv]
      [] region = "authTag"   -> [kf EXCEPT !.authTag = [gcm |-> kf.encrypted, flipped |-> TRUE]]
      [] region = "signature" -> [kf EXCEPT !.signature = [hmac |-> kf.encrypted, flipped |-> TRUE]]
      [] region = "encrypted" -> [kf EXCEPT !.encrypted = [flipped |-> kf.encrypted]]

Truncate(kf) == [kf EXCEPT !.size = MinKeyFileSize - 1]

PresentableKeyFiles ==
    keyFiles \cup {Tamper(k, r) : k \in keyFiles, r \in TamperRegions}
             \cup {Truncate(k) : k \in keyFiles}
             \cup {NoKeyFile}

\* ------------------------------------------------------------------ Init
InitUser(i, role, limit, hash) ==
    [ role                 |-> role,
      deviceLimit          |-> limit,
      isActive             |-> TRUE,
      passwordHash         |-> hash,
      keyFileId            |-> i,
      keyFileRevoked       |-> FALSE,
      keyFileRevokedAt     |-> NullDate,
      keyFileRevokedReason |-> "null",
      lastLoginAt          |-> NullDate,
      loginCount           |-> 0 ]

\* the principals on record: u1 of any role and device limit, u2 an
\* administrator; both were issued a key file and a password at creation
InitProfiles ==
    {[u1 |-> [role |-> r, limit |-> l], u2 |-> [role |-> "admin", limit |-> 1]] :
        r \in Roles, l \in DeviceLimits}

Procs == {"r1", "r2"}

\* const rateLimitMap = new Map()
NoRateRecords == [ip \in {} |-> [count |-> 0, resetAt |-> 0]]

\* the client addresses and the routes behind a limiter
ClientIps == {"ip1", "ip2"}

LimitedRoutes == {"login", "init"}

\* no client has sent anything yet
NoAttempts ==
    [route \in LimitedRoutes |->
        [ip \in ClientIps |-> [start |-> NullDate, passed |-> 0, rejected |-> 0]]]

NoSession == [none |-> TRUE]

\* the locals of a request slot that holds no request
NoLocals == [user |-> "", fp |-> <<>>, loginCount |-> 0, oldest |-> NoSession]

NoResult == [op |-> "none"]

\* a caller that has no inputs and has called nothing
NoBench == [fields |-> [none |-> TRUE], artifact |-> NoKeyFile, issuedAt |-> NullDate,
            token |-> NoToken, result |-> NoResult]

InitStore(profiles) ==
    /\ \E prof \in profiles :
          users = [u \in Users |->
                     LET i == CHOOSE k \in 1..Len(UserOrder) : UserOrder[k] = u
                     IN  InitUser(i, prof[u].role, prof[u].limit, hashPassword("pw1", u))]
    /\ sessions = {}
    /\ tokens = {}
    /\ keyFiles = {generateKeyFile(KeyFileFieldsOf(u, users[u], KeyFileDefaultTTL),
                                   0, Fresh(users[u].keyFileId)) : u \in Users}
    /\ nextId = 1
    /\ nextKeyId = Len(UserOrder) + 1
    /\ now = 0
    /\ pc = [r \in Procs |-> "idle"]
    /\ loc = [r \in Procs |-> NoLocals]
    /\ rateLimitMap = NoRateRecords
    /\ attempts = NoAttempts

Init ==
    /\ InitStore(InitProfiles)
    /\ bench = NoBench

\* --------------------------------------------------------- authController
Answer(status, error) == [status |-> status, error |-> error]

\* the same-device lookup of the login handlers
FindExistingSession(S, u, fp, t) ==
    {s \in S : s.user = u /\ s.deviceFingerprint = fp /\ s.isActive /\ s.expiresAt > t}

\* a check that evicts at every admission
CheckDeviceLimitAlways(S, u, limit, fp, t) == terminateOldestSession(S, u, t)

\* "Check device limit": the session sets it can leave behind
CheckDeviceLimit(S, u, limit, fp, t) ==
    IF Cardinality(countActiveDevices(S, u, t)) >= limit
       /\ FindExistingSession(S, u, fp, t) = {}
    THEN terminateOldestSession(S, u, t)
    ELSE {S}

\* Devices are interchangeable, so a login comes from a device some session
\* record of the principal names or from the first device none names.
DeviceChoices(u) ==
    {DeviceOrder[i] : i \in {k \in 1..Len(DeviceOrder) :
        \A j \in 1..(k - 1) : \E s \in sessions :
            s.user = u /\ s.deviceFingerprint = generateDeviceFingerprint(DeviceOrder[j])}}

\* the common tail of both login handlers, from "Generate device
\* fingerprint" to the response
Admit(u, deviceInfo, cap) ==
    LET fp    == generateDeviceFingerprint(deviceInfo)
        token == generateSessionToken(
                     [userId |-> u, role |-> users[u].role, deviceFingerprint |-> fp],
                     NullDate, now, nextId)
    IN  /\ nextId <= cap
        /\ \E S1 \in CheckDeviceLimit(sessions, u, users[u].deviceLimit, fp, now) :
              sessions' = S1 \cup {NewSession(u, token, fp, now + SessionRecordTTL, now, nextId)}
        /\ users' = [users EXCEPT ![u].lastLoginAt = now,
                                  ![u].loginCount = users[u].loginCount + 1]
        /\ tokens' = tokens \cup {token}
        /\ nextId' = nextId + 1
        /\ UNCHANGED <<keyFiles, nextKeyId, now>>

\* a login handler that skips the stored-hash test
NoPasswordSetIgnored(usr) == FALSE

\* !user.passwordHash
NoPasswordSet(usr) == usr.passwordHash = NoHash

\* the credential checks of loginWithPassword, up to "Generate device
\* fingerprint": the answer, 200 when the login goes on to admission
loginWithPasswordChecks(U, username, password) ==
    IF username = "" \/ password = ""
    THEN Answer(400, "Username and password are required")
    ELSE IF username \notin DOMAIN U \/ ~U[username].isActive
    THEN Answer(401, "Invalid username or password")
    ELSE IF NoPasswordSet(U[username])
    THEN Answer(401, "Password login not enabled for this account. Use key file.")
    ELSE IF ~validatePassword(U[username], password)
    THEN Answer(401, "Invalid username or password")
    ELSE IF U[username].keyFileRevoked
    THEN Answer(403, "Account access has been revoked")
    ELSE Answer(200, "")

loginWithPassword(username, password, cap) ==
    IF loginWithPasswordChecks(users, username, password).status = 200
    THEN \E d \in DeviceChoices(username) : Admit(username, d, cap)
    ELSE UNCHANGED store

\* the credential checks of loginWithKeyFile: the answer and the principal
\* found
loginWithKeyFileChecks(U, keyFile, t) ==
    IF keyFile = NoKeyFile
    THEN [status |-> 400, error |-> "Key file is required", found |-> {}]
    ELSE LET validation == validateKeyFile(keyFile, t)
         IN  IF ~validation.valid
             THEN [status |-> 401, error |-> validation.error, found |-> {}]
             ELSE IF findByKeyFileId(U, validation.data.keyId) = {}
             THEN [status |-> 401, error |-> "Key file not registered or has been revoked",
                   found |-> {}]
             ELSE IF \E u \in findByKeyFileId(U, validation.data.keyId) : ~U[u].isActive
             THEN [status |-> 403, error |-> "Account is disabled", found |-> {}]
             ELSE [status |-> 200, error |-> "",
                   found |-> findByKeyFileId(U, validation.data.keyId)]

loginWithKeyFile(keyFile, cap) ==
    LET c == loginWithKeyFileChecks(users, keyFile, now)
    IN  IF c.status = 200
        THEN \E u \in c.found : \E d \in DeviceChoices(u) : Admit(u, d, cap)
        ELSE UNCHANGED store

AdminRoles == {"admin", "superadmin"}

\* GET /me behind protect: the touch of an authenticated request
getCurrentUser(token) ==
    /\ sessions' = protect(sessions, token, now).sessions
    /\ UNCHANGED <<users, tokens, keyFiles, nextId, nextKeyId, now>>

\* a logout that ends every active session on record
logoutSessionsEveryone(S, token, t) ==
    {IF s.isActive THEN terminate(s, "logout", t) ELSE s : s \in S}

\* logout's own lookup and termination, after protect has passed
logoutSessions(S, token, t) ==
    {IF s.sessionToken = token /\ s.isActive THEN terminate(s, "logout", t) ELSE s : s \in S}

logout(token) ==
    LET p == protect(sessions, token, now)
    IN  /\ sessions' = IF p.status = 200 THEN logoutSessions(p.sessions, token, now)
                       ELSE p.sessions
        /\ UNCHANGED <<users, tokens, keyFiles, nextId, nextKeyId, now>>

logoutAll(token) ==
    LET p == protect(sessions, token, now)
    IN  /\ sessions' = IF p.status = 200
                       THEN terminateAllForUser(p.sessions, p.user.userId, "logout", now)
                       ELSE p.sessions
        /\ UNCHANGED <<users, tokens, keyFiles, nextId, nextKeyId, now>>

\* an admin route that checks no role
AdminGateOpen(p) ==
    IF p.status # 200 THEN Answer(p.status, p.error) ELSE Answer(200, "")

\* protect, then requireRole('admin', 'superadmin'), then the handler's own
\* role check: what an admin route answers before its body runs
AdminGate(p) ==
    IF p.status # 200 THEN Answer(p.status, p.error)
    ELSE IF requireRole(p.user, AdminRoles).status # 200
    THEN requireRole(p.user, AdminRoles)
    ELSE IF p.user.role \notin AdminRoles
    THEN Answer(403, "Admin access required")
    ELSE Answer(200, "")

\* the usernames createUser is asked for that no principal has at Init
NewUsers == {"u3"}

\* the ids an admin route can name: req.params.id of a principal on record
UserIds == Users \cup NewUsers

\* a request the admin gate turns away: only protect's touch remains
Refused(p) ==
    /\ sessions' = p.sessions
    /\ UNCHANGED <<users, tokens, keyFiles, nextId, nextKeyId, now>>

revokeUserKeyFile(token, reason) ==
    LET p == protect(sessions, token, now)
    IN  IF AdminGate(p).status # 200 THEN Refused(p)
        ELSE \E id \in UserIds \cup {"ghost"} :
             IF id \notin DOMAIN users THEN Refused(p)
             ELSE /\ users' = [users EXCEPT ![id] = revokeKeyFile(users[id], reason, now)]
                  /\ sessions' = terminateAllForUser(p.sessions, id, "revoked", now)
                  /\ UNCHANGED <<tokens, keyFiles, nextId, nextKeyId, now>>

\* req.body.expiresInDays: 0 stands for a request that gives none
RegenerateDays == {0, 0 - 1}

\* (expiresInDays || 365) days, in units of 12 hours
KeyFileLifetime(expiresInDays) ==
    IF expiresInDays = 0 THEN KeyFileDefaultTTL ELSE 2 * expiresInDays

\* a regeneration that terminates no session
RegenerateTerminateNone(S, u, t) == S

\* Session.terminateAllForUser(user._id, 'revoked') of regenerateKeyFile
RegenerateTerminate(S, u, t) == terminateAllForUser(S, u, "revoked", t)

regenerateKeyFile(token, expiresInDays) ==
    LET p == protect(sessions, token, now)
    IN  IF AdminGate(p).status # 200 THEN Refused(p)
        ELSE \E id \in UserIds \cup {"ghost"} :
             IF id \notin DOMAIN users THEN Refused(p)
             ELSE LET expiresAt     == now + KeyFileLifetime(expiresInDays)
                      keyFileBuffer == generateKeyFile(KeyFileFieldsOf(id, users[id], expiresAt),
                                                       now, Fresh(nextKeyId))
                      validation    == validateKeyFile(keyFileBuffer, now)
                  IN  \* validation.data is undefined for an artifact that
                      \* is already expired: the handler throws and answers 500
                      IF ~validation.valid THEN Refused(p)
                      ELSE
                      /\ nextKeyId < Len(UserOrder) + 1 + MaxKeyFiles
                      /\ users' = [users EXCEPT ![id].keyFileId = validation.data.keyId,
                                                ![id].keyFileRevoked = FALSE,
                                                ![id].keyFileRevokedAt = NullDate,
                                                ![id].keyFileRevokedReason = "null"]
                      /\ sessions' = RegenerateTerminate(p.sessions, id, now)
                      /\ keyFiles' = keyFiles \cup {keyFileBuffer}
                      /\ nextKeyId' = nextKeyId + 1
                      /\ UNCHANGED <<tokens, nextId, now>>

\* User.create with the fields createUser gives and the schema defaults
CreatedUser(keyId, role, deviceLimit) ==
    [ role                 |-> IF role = "" THEN "user" ELSE role,
      deviceLimit          |-> IF deviceLimit = 0 THEN DefaultDeviceLimit ELSE deviceLimit,
      isActive             |-> TRUE,
      passwordHash         |-> NoHash,
      keyFileId            |-> keyId,
      keyFileRevoked       |-> FALSE,
      keyFileRevokedAt     |-> NullDate,
      keyFileRevokedReason |-> "null",
      lastLoginAt          |-> NullDate,
      loginCount           |-> 0 ]

\* "Only superadmin can create admins"
CreateRoleRefused(role, callerRole) == role = "admin" /\ callerRole # "superadmin"

\* "" stands for a field the request leaves out, 0 for a number left out
createUser(token, username, password, role, deviceLimit, expiresInDays) ==
    LET p == protect(sessions, token, now)
    IN  IF AdminGate(p).status # 200 THEN Refused(p)
        ELSE IF CreateRoleRefused(role, p.user.role) THEN Refused(p)
        ELSE IF password = "short" THEN Refused(p)
        ELSE IF username \in DOMAIN users THEN Refused(p)
        ELSE LET keyId     == Fresh(nextKeyId).keyId
                 expiresAt == now + KeyFileLifetime(expiresInDays)
                 created   == CreatedUser(keyId, role, deviceLimit)
                 user      == IF password # "" THEN setPassword(created, password, username)
                              ELSE created
                 keyFileBuffer == generateKeyFile(KeyFileFieldsOf(username, user, expiresAt),
                                                  now, Fresh(nextKeyId + 1))
                 validation    == validateKeyFile(keyFileBuffer, now)
                 saved     == IF validation.valid
                              THEN [user EXCEPT !.keyFileId = validation.data.keyId]
                              ELSE user
             IN  /\ users' = [u \in DOMAIN users \cup {username} |->
                                 IF u = username THEN saved ELSE users[u]]
                 /\ sessions' = p.sessions
                 /\ keyFiles' = keyFiles \cup {keyFileBuffer}
                 /\ nextKeyId' = nextKeyId + 2
                 /\ UNCHANGED <<tokens, nextId, now>>

\* a password the handler refuses: absent or shorter than 8 characters
TooShort(password) == password \in {"", "short"}

updateUserPassword(token, password, removePassword) ==
    LET p == protect(sessions, token, now)
    IN  IF AdminGate(p).status # 200 THEN Refused(p)
        ELSE \E id \in UserIds \cup {"ghost"} :
             IF id \notin DOMAIN users THEN Refused(p)
             ELSE IF users[id].role = "superadmin" /\ p.user.role # "superadmin"
             THEN Refused(p)
             ELSE IF removePassword
             THEN /\ users' = [users EXCEPT ![id].passwordHash = NoHash]
                  /\ sessions' = p.sessions
                  /\ UNCHANGED <<tokens, keyFiles, nextId, nextKeyId, now>>
             ELSE IF TooShort(password) THEN Refused(p)
             ELSE /\ users' = [users EXCEPT ![id] = setPassword(users[id], password, id)]
                  /\ sessions' = p.sessions
                  /\ UNCHANGED <<tokens, keyFiles, nextId, nextKeyId, now>>

\* the body of terminateSession on the record found by id
terminateSessionBody(s, t) == terminate(s, "admin_action", t)

terminateSession(token) ==
    LET p == protect(sessions, token, now)
    IN  IF AdminGate(p).status # 200 THEN Refused(p)
        ELSE \E sid \in 1..MaxSessions :
             IF ~\E s \in p.sessions : s.id = sid THEN Refused(p)
             ELSE /\ sessions' = {IF s.id = sid THEN terminateSessionBody(s, now) ELSE s :
                                     s \in p.sessions}
                  /\ UNCHANGED <<users, tokens, keyFiles, nextId, nextKeyId, now>>

\* ------------------------------------------------------------ environment
Tick ==
    /\ now < MaxTime
    /\ now' = now + 1
    /\ UNCHANGED <<users, sessions, tokens, keyFiles, nextId, nextKeyId>>

\* the store's TTL index on expiresAt (expireAfterSeconds: 0): a pass of the
\* TTL monitor removes the documents whose expiresAt has passed
TTLSweep ==
    /\ \E s \in sessions : s.expiresAt <= now
    /\ sessions' = {s \in sessions : s.expiresAt > now}
    /\ UNCHANGED <<users, tokens, keyFiles, nextId, nextKeyId, now>>

\* the requests clients send: credentials right and wrong, artifacts issued,
\* altered and truncated, tokens issued and corrupted
Usernames == Users \cup {"", "ghost"}

LoginKeyFiles ==
    keyFiles \cup {Tamper(k, "signature") : k \in keyFiles}
             \cup {Tamper(k, "authTag") : k \in keyFiles}
             \cup {NoKeyFile}

Next ==
    \/ \E username \in Usernames, password \in Passwords \cup {""} :
          loginWithPassword(username, password, MaxSessions) /\ OnlyStore
    \/ \E kf \in LoginKeyFiles : loginWithKeyFile(kf, MaxSessions) /\ OnlyStore
    \/ \E token \in PresentableTokens : getCurrentUser(token) /\ OnlyStore
    \/ \E token \in PresentableTokens : logout(token) /\ OnlyStore
    \/ \E token \in PresentableTokens : logoutAll(token) /\ OnlyStore
    \/ \E token \in PresentableTokens : revokeUserKeyFile(token, "Revoked by admin") /\ OnlyStore
    \/ \E token \in PresentableTokens, days \in RegenerateDays :
          regenerateKeyFile(token, days) /\ OnlyStore
    \/ \E token \in PresentableTokens : terminateSession(token) /\ OnlyStore
    \/ Tick /\ OnlyStore
    \/ TTLSweep /\ OnlyStore

Spec == Init /\ [][Next]_vars

\* One principal's sessions under device-limit pressure: u1 logs in, sends
\* requests and logs out, up to MaxAdmissions admissions; no administrator
\* acts.
OwnKeyFiles(u) ==
    {k \in LoginKeyFiles : k # NoKeyFile /\ JsonParse(k.encrypted.pt).userId = u}

NextAdmission ==
    \/ \E password \in Passwords : loginWithPassword("u1", password, MaxAdmissions) /\ OnlyStore
    \/ \E kf \in OwnKeyFiles("u1") : loginWithKeyFile(kf, MaxAdmissions) /\ OnlyStore
    \/ \E token \in PresentableTokens : getCurrentUser(token) /\ OnlyStore
    \/ \E token \in PresentableTokens : logout(token) /\ OnlyStore
    \/ \E token \in PresentableTokens : logoutAll(token) /\ OnlyStore
    \/ Tick /\ OnlyStore
    \/ TTLSweep /\ OnlyStore

SpecAdmission == Init /\ [][NextAdmission]_vars

\* what a createUser request can carry: a role absent or named, a password
\* absent or acceptable
CreatePasswords == {"", "pw1"}

CreateRoles == Roles \cup {""}

\* a password too short, a username already taken, a lifetime already over
OtherCreations ==
    {[username |-> "u3", password |-> "short", days |-> 0],
     [username |-> "u1", password |-> "pw1", days |-> 0],
     [username |-> "u3", password |-> "pw1", days |-> 0 - 1]}

\* the principals on record when the admin routes are exercised: u1 a plain
\* user or the superadmin, u2 an administrator
AdminProfiles ==
    {[u1 |-> [role |-> r, limit |-> 2], u2 |-> [role |-> "admin", limit |-> 1]] :
        r \in {"user", "superadmin"}}

InitAdmin ==
    /\ InitStore(AdminProfiles)
    /\ bench = NoBench

\* the admin routes, with the password login that gives their callers a
\* session
NextAdmin ==
    \/ \E username \in UserIds, password \in Passwords :
          loginWithPassword(username, password, MaxSessions) /\ OnlyStore
    \/ \E token \in tokens, username \in NewUsers, password \in CreatePasswords,
          role \in CreateRoles :
          createUser(token, username, password, role, 0, 0) /\ OnlyStore
    \/ \E token \in tokens, c \in OtherCreations :
          createUser(token, c.username, c.password, "", 0, c.days) /\ OnlyStore
    \/ \E token \in tokens : revokeUserKeyFile(token, "Revoked by admin") /\ OnlyStore
    \/ \E token \in tokens, days \in RegenerateDays :
          regenerateKeyFile(token, days) /\ OnlyStore
    \/ \E token \in tokens, password \in {"pw1", "short"}, removePassword \in BOOLEAN :
          updateUserPassword(token, password, removePassword) /\ OnlyStore
    \/ \E token \in tokens : terminateSession(token) /\ OnlyStore

SpecAdmin == InitAdmin /\ [][NextAdmin]_vars

\* the principals on record when a plain user calls the admin routes
GateProfiles == {[u1 |-> [role |-> "user", limit |-> 2], u2 |-> [role |-> "admin", limit |-> 1]]}

InitGate ==
    /\ InitStore(GateProfiles)
    /\ bench = NoBench

\* the tokens issued to callers of one role
TokensOfRole(role) == {k \in tokens : k.payload.role = role}

\* the admin routes called with a plain user's token, and the session
\* route DELETE /sessions/:id called by anyone, as time passes
NextGate ==
    \/ \E username \in Users, password \in Passwords :
          loginWithPassword(username, password, MaxAdmissions) /\ OnlyStore
    \/ \E token \in TokensOfRole("user"), role \in CreateRoles :
          createUser(token, "u3", "pw1", role, 0, 0) /\ OnlyStore
    \/ \E token \in TokensOfRole("user") :
          revokeUserKeyFile(token, "Revoked by admin") /\ OnlyStore
    \/ \E token \in TokensOfRole("user"), days \in RegenerateDays :
          regenerateKeyFile(token, days) /\ OnlyStore
    \/ \E token \in TokensOfRole("user"), removePassword \in BOOLEAN :
          updateUserPassword(token, "pw2", removePassword) /\ OnlyStore
    \/ \E token \in tokens : terminateSession(token) /\ OnlyStore
    \/ Tick /\ OnlyStore

SpecGate == InitGate /\ [][NextGate]_vars

\* the login, touch and logout routes for both principals, up to
\* MaxAdmissions admissions in all
NextLogins ==
    \/ \E username \in Users, password \in Passwords :
          loginWithPassword(username, password, MaxAdmissions) /\ OnlyStore
    \/ \E kf \in keyFiles : loginWithKeyFile(kf, MaxAdmissions) /\ OnlyStore
    \/ \E token \in tokens : getCurrentUser(token) /\ OnlyStore
    \/ \E token \in tokens : logout(token) /\ OnlyStore
    \/ \E token \in tokens : logoutAll(token) /\ OnlyStore
    \/ Tick /\ OnlyStore

SpecLogins == Init /\ [][NextLogins]_vars

\* a superadmin u1 on record, and the admin u2 the only one to log in and
\* to call the admin routes
ElevateProfiles == {[u1 |-> [role |-> "superadmin", limit |-> 2], u2 |-> [role |-> "admin", limit |-> 1]]}

InitElevate ==
    /\ InitStore(ElevateProfiles)
    /\ bench = NoBench

NextElevate ==
    \/ \E password \in Passwords : loginWithPassword("u2", password, MaxSessions) /\ OnlyStore
    \/ \E token \in tokens, role \in CreateRoles :
          createUser(token, "u3", "pw1", role, 0, 0) /\ OnlyStore
    \/ \E token \in tokens : revokeUserKeyFile(token, "lost") /\ OnlyStore
    \/ \E token \in tokens : regenerateKeyFile(token, 0) /\ OnlyStore
    \/ \E token \in tokens, password \in {"pw2", "short"}, removePassword \in BOOLEAN :
          updateUserPassword(token, password, removePassword) /\ OnlyStore
    \/ Tick /\ OnlyStore

SpecElevate == InitElevate /\ [][NextElevate]_vars

\* logins right and wrong while the admin u2 revokes and regenerates key
\* files and removes passwords, as time passes
NextReject ==
    \/ \E username \in Usernames, password \in Passwords \cup {""} :
          loginWithPassword(username, password, MaxSessions) /\ OnlyStore
    \/ \E kf \in LoginKeyFiles : loginWithKeyFile(kf, MaxSessions) /\ OnlyStore
    \/ \E token \in tokens : revokeUserKeyFile(token, "lost") /\ OnlyStore
    \/ \E token \in tokens, days \in RegenerateDays :
          regenerateKeyFile(token, days) /\ OnlyStore
    \/ \E token \in tokens : updateUserPassword(token, "", TRUE) /\ OnlyStore
    \/ Tick /\ OnlyStore

SpecReject == InitGate /\ [][NextReject]_vars

\* Password administration: administrators set and remove passwords while
\* the principals log in by password and log out.
NextPassword ==
    \/ \E username \in Usernames, password \in Passwords \cup {""} :
          loginWithPassword(username, password, MaxSessions) /\ OnlyStore
    \/ \E token \in tokens \cup {NoToken}, password \in Passwords \cup {"", "short"},
          removePassword \in BOOLEAN :
          updateUserPassword(token, password, removePassword) /\ OnlyStore
    \/ \E token \in tokens : logout(token) /\ OnlyStore
    \/ Tick /\ OnlyStore

SpecPassword == Init /\ [][NextPassword]_vars

\* ---------------------------------------------- login requests in flight
\* A login handler awaits the store between its steps, so the steps of two
\* requests interleave. A request slot r runs one request at a time:
\*   idle -> count -> (find -> (evict -> save)) -> create -> stats -> idle
InFlight == {r \in Procs : pc[r] # "idle"}

\* as DeviceChoices, counting the devices of the requests in flight as named
ConcDeviceChoices(u) ==
    {DeviceOrder[i] : i \in {k \in 1..Len(DeviceOrder) :
        \A j \in 1..(k - 1) :
            \/ \E s \in sessions :
                  s.user = u /\ s.deviceFingerprint = generateDeviceFingerprint(DeviceOrder[j])
            \/ \E q \in InFlight :
                  loc[q].user = u /\ loc[q].fp = generateDeviceFingerprint(DeviceOrder[j])}}

ConcFrame == UNCHANGED <<keyFiles, nextKeyId, now, bench, rateLimitMap, attempts>>

\* the credential checks of either handler pass: the request holds its copy
\* of the user document and the fingerprint of its device
BeginLogin(r, u, cap) ==
    /\ pc[r] = "idle"
    /\ nextId + Cardinality(InFlight) <= cap
    /\ \/ \E password \in Passwords :
             loginWithPasswordChecks(users, u, password).status = 200
       \/ \E kf \in keyFiles :
             /\ loginWithKeyFileChecks(users, kf, now).status = 200
             /\ u \in loginWithKeyFileChecks(users, kf, now).found
    /\ \E d \in ConcDeviceChoices(u) :
          loc' = [loc EXCEPT ![r] = [user |-> u, fp |-> generateDeviceFingerprint(d),
                                     loginCount |-> users[u].loginCount,
                                     oldest |-> NoSession]]
    /\ pc' = [pc EXCEPT ![r] = "count"]
    /\ UNCHANGED <<users, sessions, tokens, nextId>>
    /\ ConcFrame

\* await Session.countActiveDevices(user._id), compared with the limit read
\* with the user document
CountDevices(r) ==
    /\ pc[r] = "count"
    /\ pc' = [pc EXCEPT ![r] =
                 IF Cardinality(countActiveDevices(sessions, loc[r].user, now))
                        >= users[loc[r].user].deviceLimit
                 THEN "find" ELSE "create"]
    /\ UNCHANGED <<users, sessions, tokens, nextId, loc>>
    /\ ConcFrame

\* await Session.findOne({user, deviceFingerprint, isActive, expiresAt > now})
FindExisting(r) ==
    /\ pc[r] = "find"
    /\ pc' = [pc EXCEPT ![r] =
                 IF FindExistingSession(sessions, loc[r].user, loc[r].fp, now) = {}
                 THEN "evict" ELSE "create"]
    /\ UNCHANGED <<users, sessions, tokens, nextId, loc>>
    /\ ConcFrame

\* terminateOldestSession, the findOne: the request holds the record it read
FindOldest(r) ==
    /\ pc[r] = "evict"
    /\ IF OldestCandidates(sessions, loc[r].user) = {}
       THEN /\ pc' = [pc EXCEPT ![r] = "create"]
            /\ UNCHANGED loc
       ELSE /\ \E v \in OldestCandidates(sessions, loc[r].user) :
                  loc' = [loc EXCEPT ![r].oldest = v]
            /\ pc' = [pc EXCEPT ![r] = "save"]
    /\ UNCHANGED <<users, sessions, tokens, nextId>>
    /\ ConcFrame

\* terminateOldestSession, oldest.terminate('device_limit') and save(): the
\* three fields are written to the stored record of that id; when the record
\* is gone the save throws and the login answers 500
SaveOldest(r) ==
    /\ pc[r] = "save"
    /\ IF \E s \in sessions : s.id = loc[r].oldest.id
       THEN /\ sessions' = {IF s.id = loc[r].oldest.id
                            THEN terminate(s, "device_limit", now) ELSE s : s \in sessions}
            /\ pc' = [pc EXCEPT ![r] = "create"]
            /\ loc' = [loc EXCEPT ![r].oldest = NoSession]
       ELSE /\ pc' = [pc EXCEPT ![r] = "idle"]
            /\ loc' = [loc EXCEPT ![r] = NoLocals]
            /\ UNCHANGED sessions
    /\ UNCHANGED <<users, tokens, nextId>>
    /\ ConcFrame

\* generateSessionToken and await Session.create
CreateSession(r) ==
    LET u     == loc[r].user
        token == generateSessionToken(
                     [userId |-> u, role |-> users[u].role, deviceFingerprint |-> loc[r].fp],
                     NullDate, now, nextId)
    IN  /\ pc[r] = "create"
        /\ sessions' = sessions \cup
                          {NewSession(u, token, loc[r].fp, now + SessionRecordTTL, now, nextId)}
        /\ tokens' = tokens \cup {token}
        /\ nextId' = nextId + 1
        /\ pc' = [pc EXCEPT ![r] = "stats"]
        /\ UNCHANGED <<users, loc>>
        /\ ConcFrame

\* "Update login stats": the request's copy of the user document is saved
SaveLoginStats(r) ==
    /\ pc[r] = "stats"
    /\ users' = [users EXCEPT ![loc[r].user].lastLoginAt = now,
                              ![loc[r].user].loginCount = loc[r].loginCount + 1]
    /\ pc' = [pc EXCEPT ![r] = "idle"]
    /\ loc' = [loc EXCEPT ![r] = NoLocals]
    /\ UNCHANGED <<sessions, tokens, nextId>>
    /\ ConcFrame

\* u1's logins arrive on two connections at once; u1 also sends requests and
\* logs out, and time passes
NextConc ==
    \/ \E r \in Procs : BeginLogin(r, "u1", MaxSessions)
    \/ \E r \in Procs : CountDevices(r)
    \/ \E r \in Procs : FindExisting(r)
    \/ \E r \in Procs : FindOldest(r)
    \/ \E r \in Procs : SaveOldest(r)
    \/ \E r \in Procs : CreateSession(r)
    \/ \E r \in Procs : SaveLoginStats(r)
    \/ \E token \in tokens : getCurrentUser(token) /\ OnlyStore
    \/ \E token \in tokens : logout(token) /\ OnlyStore
    \/ Tick /\ OnlyStore
    \/ TTLSweep /\ OnlyStore

SpecConc == Init /\ [][NextConc]_vars

RevokeProfiles == {[u1 |-> [role |-> "user", limit |-> 1], u2 |-> [role |-> "admin", limit |-> 1]]}

InitRevoke ==
    /\ InitStore(RevokeProfiles)
    /\ bench = NoBench

\* u1's logins at their awaits, while the admin u2 logs in and revokes and
\* regenerates key files
NextRevoke ==
    \/ \E password \in Passwords :
          loginWithPassword("u2", password, MaxAdmissions) /\ OnlyStore
    \/ \E r \in Procs : BeginLogin(r, "u1", MaxAdmissions)
    \/ \E r \in Procs : CountDevices(r)
    \/ \E r \in Procs : FindExisting(r)
    \/ \E r \in Procs : FindOldest(r)
    \/ \E r \in Procs : SaveOldest(r)
    \/ \E r \in Procs : CreateSession(r)
    \/ \E r \in Procs : SaveLoginStats(r)
    \/ \E token \in tokens : revokeUserKeyFile(token, "lost") /\ OnlyStore
    \/ \E token \in tokens : regenerateKeyFile(token, 0) /\ OnlyStore

SpecRevoke == InitRevoke /\ [][NextRevoke]_vars

\* ------------------------------------------------- protect, at its awaits
\* a save that writes the whole document the request read
SaveTouchedWhole(stored, doc, t) == updateActivity(doc, t)

\* session.updateActivity() and save() on the document the request read:
\* the one modified path is written to the stored record of that id
SaveTouched(stored, doc, t) == updateActivity(stored, t)

\* protect up to its findOne: the request holds the session document
TouchFind(r, token) ==
    /\ pc[r] = "idle"
    /\ validateSessionToken(token, now) # NullClaims
    /\ \E s \in ProtectLookup(sessions, token, now) :
          loc' = [loc EXCEPT ![r] = [session |-> s]]
    /\ pc' = [pc EXCEPT ![r] = "touch"]
    /\ UNCHANGED <<users, sessions, tokens, nextId>>
    /\ ConcFrame

\* protect from updateActivity to next(): when the record is gone the save
\* throws and protect answers 500
TouchSave(r) ==
    /\ pc[r] = "touch"
    /\ sessions' = {IF s.id = loc[r].session.id
                    THEN SaveTouched(s, loc[r].session, now) ELSE s : s \in sessions}
    /\ pc' = [pc EXCEPT ![r] = "idle"]
    /\ loc' = [loc EXCEPT ![r] = NoLocals]
    /\ UNCHANGED <<users, tokens, nextId>>
    /\ ConcFrame

\* requests pass through protect on two connections while sessions are
\* terminated by their holders, by admission, by an administrator and by
\* revocation, and removed by the store
NextTouch ==
    \/ \E username \in Users, password \in Passwords :
          loginWithPassword(username, password, MaxSessions) /\ OnlyStore
    \/ \E r \in Procs, token \in tokens : TouchFind(r, token)
    \/ \E r \in Procs : TouchSave(r)
    \/ \E token \in tokens : logout(token) /\ OnlyStore
    \/ \E token \in tokens : logoutAll(token) /\ OnlyStore
    \/ \E token \in tokens : terminateSession(token) /\ OnlyStore
    \/ \E token \in tokens : revokeUserKeyFile(token, "Revoked by admin") /\ OnlyStore
    \/ Tick /\ OnlyStore
    \/ TTLSweep /\ OnlyStore

SpecTouch == InitGate /\ [][NextTouch]_vars

\* ---------------------------------------- initializeSuperAdmin, at its awaits
\* a database with no principal on record
InitFresh ==
    /\ users = [u \in {} |-> NoHash]
    /\ sessions = {}
    /\ tokens = {}
    /\ keyFiles = {}
    /\ nextId = 1
    /\ nextKeyId = 1
    /\ now = 0
    /\ pc = [r \in Procs |-> "idle"]
    /\ loc = [r \in Procs |-> NoLocals]
    /\ bench = NoBench
    /\ rateLimitMap = NoRateRecords
    /\ attempts = NoAttempts

\* User.findOne({ role: 'superadmin' })
ExistingSuperAdmin(U) == {u \in DOMAIN U : U[u].role = "superadmin"}

\* new User({...}) of initializeSuperAdmin with the password set
SuperAdminUser(username, password, keyId) ==
    [ role                 |-> "superadmin",
      deviceLimit          |-> 5,
      isActive             |-> TRUE,
      passwordHash         |-> hashPassword(password, username),
      keyFileId            |-> keyId,
      keyFileRevoked       |-> FALSE,
      keyFileRevokedAt     |-> NullDate,
      keyFileRevokedReason |-> "null",
      lastLoginAt          |-> NullDate,
      loginCount           |-> 0 ]

\* initializeSuperAdmin up to the answer of its findOne and the check of
\* the request body: the request goes on when no superadmin was found and
\* both fields are given ("" stands for a field left out)
InitCheck(r, username, password) ==
    /\ pc[r] = "idle"
    /\ IF ExistingSuperAdmin(users) # {} \/ username = "" \/ password = ""
       THEN UNCHANGED <<pc, loc>>
       ELSE /\ pc' = [pc EXCEPT ![r] = "init"]
            /\ loc' = [loc EXCEPT ![r] = [username |-> username, password |-> password]]
    /\ UNCHANGED <<users, sessions, tokens, nextId>>
    /\ ConcFrame

\* initializeSuperAdmin from new User to the response: user.save() inserts
\* the document unless the unique index on username refuses it
InitSave(r) ==
    LET username      == loc[r].username
        draft         == SuperAdminUser(username, loc[r].password, Fresh(nextKeyId).keyId)
        expiresAt     == now + KeyFileDefaultTTL
        keyFileBuffer == generateKeyFile(KeyFileFieldsOf(username, draft, expiresAt),
                                         now, Fresh(nextKeyId + 1))
        validation    == validateKeyFile(keyFileBuffer, now)
    IN  /\ pc[r] = "init"
        /\ pc' = [pc EXCEPT ![r] = "idle"]
        /\ loc' = [loc EXCEPT ![r] = NoLocals]
        /\ IF username \in DOMAIN users
           THEN UNCHANGED <<users, keyFiles, nextKeyId>>
           ELSE /\ users' = [u \in DOMAIN users \cup {username} |->
                               IF u = username
                               THEN [draft EXCEPT !.keyFileId = validation.data.keyId]
                               ELSE users[u]]
                /\ keyFiles' = keyFiles \cup {keyFileBuffer}
                /\ nextKeyId' = nextKeyId + 2
        /\ UNCHANGED <<sessions, tokens, nextId, now, bench, rateLimitMap, attempts>>

\* POST /init arrives on two connections; the principals created log in
\* and out, and time passes
NextInit ==
    \/ \E r \in Procs, username \in Users \cup {""}, password \in {"pw1", ""} :
          InitCheck(r, username, password)
    \/ \E r \in Procs : InitSave(r)
    \/ \E username \in Users, password \in Passwords :
          loginWithPassword(username, password, MaxSessions) /\ OnlyStore
    \/ \E token \in tokens : logout(token) /\ OnlyStore
    \/ Tick /\ OnlyStore

SpecInit == InitFresh /\ [][NextInit]_vars

\* ------------------------------------------------- middleware: rateLimit
\* rateLimit(maxRequests, windowMs) on a request from ip at time t: whether
\* next() is called, and the map it leaves
rateLimit(M, ip, t, maxRequests, windowMs) ==
    IF ip \notin DOMAIN M
    THEN [next |-> TRUE,
          map  |-> [i \in DOMAIN M \cup {ip} |->
                      IF i = ip THEN [count |-> 1, resetAt |-> t + windowMs] ELSE M[i]]]
    ELSE IF t > M[ip].resetAt
    THEN [next |-> TRUE,
          map  |-> [M EXCEPT ![ip] = [count |-> 1, resetAt |-> t + windowMs]]]
    ELSE [next |-> M[ip].count + 1 <= maxRequests,
          map  |-> [M EXCEPT ![ip].count = M[ip].count + 1]]

\* the limit of a route: loginRateLimit on both login routes, rateLimit(10,
\* 60000) on /init
RouteLimit(route) == IF route = "login" THEN LoginLimit ELSE InitLimit

\* the client's own tally for a route: a request sent more than a window
\* after the first of the current tally starts a new one
Observe(A, route, ip, t, passed) ==
    LET a    == A[route][ip]
        base == IF a.start = NullDate \/ t > a.start + RateWindow
                THEN [start |-> t, passed |-> 0, rejected |-> 0]
                ELSE a
    IN  [A EXCEPT ![route][ip] =
            IF passed THEN [base EXCEPT !.passed = base.passed + 1]
            ELSE [base EXCEPT !.rejected = base.rejected + 1]]

\* a request from ip reaches the limiter of a route
Limited(route, ip) ==
    /\ ip \in DOMAIN rateLimitMap => rateLimitMap[ip].count < MaxRateCount
    /\ rateLimitMap' = rateLimit(rateLimitMap, ip, now, RouteLimit(route), RateWindow).map
    /\ attempts' = Observe(attempts, route, ip, now,
                           rateLimit(rateLimitMap, ip, now, RouteLimit(route), RateWindow).next)
    /\ UNCHANGED <<pc, loc, bench>>

\* POST /login/password behind loginRateLimit
LoginPasswordRoute(ip, username, password) ==
    /\ Limited("login", ip)
    /\ IF rateLimit(rateLimitMap, ip, now, LoginLimit, RateWindow).next
       THEN loginWithPassword(username, password, MaxSessions)
       ELSE UNCHANGED store

\* POST /login behind loginRateLimit
LoginKeyFileRoute(ip, keyFile) ==
    /\ Limited("login", ip)
    /\ IF rateLimit(rateLimitMap, ip, now, LoginLimit, RateWindow).next
       THEN loginWithKeyFile(keyFile, MaxSessions)
       ELSE UNCHANGED store

\* POST /init behind rateLimit(10, 60000), with a body that names no user:
\* initializeSuperAdmin answers 400 and writes nothing
InitRoute(ip) ==
    /\ Limited("init", ip)
    /\ UNCHANGED store

\* clients try credentials that are refused, and the first of them also
\* calls /init; in this specification one unit of the clock is one limiter
\* window
NextRate ==
    \/ \E ip \in ClientIps, username \in Users, password \in {"pw2", ""} :
          LoginPasswordRoute(ip, username, password)
    \/ \E ip \in ClientIps : LoginKeyFileRoute(ip, NoKeyFile)
    \/ InitRoute("ip1")
    \/ Tick /\ OnlyStore

SpecRate == InitGate /\ [][NextRate]_vars

\* ------------------------------------------- callers of the crypto service
\* The field sets a caller hands to generateKeyFile: userId and username
\* always, each other field given or left out.
OptionalFields == {"email", "role", "deviceLimit", "permissions", "expiresAt"}

FieldChoices ==
    [ given     : SUBSET OptionalFields,
      role      : Roles,
      expiresAt : 0..(MaxTime + 1) ]

\* the userData object of a choice: a field left out is not in the object
FieldsOf(c) ==
    [f \in {"userId", "username"} \cup c.given |->
        CASE f = "userId"      -> "u1"
          [] f = "username"    -> "u1"
          [] f = "email"       -> "a@b"
          [] f = "role"        -> c.role
          [] f = "deviceLimit" -> 2
          [] f = "permissions" -> <<"read">>
          [] f = "expiresAt"   -> ToISOString(c.expiresAt)]

InitCrypto ==
    /\ InitStore({[u1 |-> [role |-> "user", limit |-> 1],
                   u2 |-> [role |-> "admin", limit |-> 1]]})
    /\ \E c \in FieldChoices : bench = [NoBench EXCEPT !.fields = FieldsOf(c)]

CryptoFrame ==
    UNCHANGED <<users, sessions, tokens, keyFiles, nextId, nextKeyId, now, pc, loc,
                rateLimitMap, attempts>>

\* the caller has an artifact generated from its fields
IssueKeyFile ==
    /\ bench.artifact = NoKeyFile
    /\ bench' = [bench EXCEPT !.artifact = generateKeyFile(bench.fields, now, Fresh(nextKeyId)),
                              !.issuedAt = now]
    /\ CryptoFrame

\* the artifact as the caller sends it back: as issued, altered or cut short
Altered(kf, how) ==
    IF how = "intact" THEN kf
    ELSE IF how = "truncated" THEN Truncate(kf)
    ELSE Tamper(kf, how)

PresentKeyFile(how) ==
    /\ bench.artifact # NoKeyFile
    /\ bench' = [bench EXCEPT !.result =
                    [op |-> "validateKeyFile", how |-> how, at |-> now,
                     out |-> validateKeyFile(Altered(bench.artifact, how), now)]]
    /\ CryptoFrame

\* the caller has a token minted for its role, with the role's duration or
\* with a duration of its own
MintToken(expiresIn) ==
    /\ bench.token = NoToken
    /\ bench' = [bench EXCEPT !.token =
                    generateSessionToken(
                        [userId |-> "u1", role |-> OrString(bench.fields, "role", "user"),
                         deviceFingerprint |-> generateDeviceFingerprint("da")],
                        expiresIn, now, nextId)]
    /\ CryptoFrame

\* the token as the caller sends it back: as minted, with a byte changed,
\* cut short, or not a token at all
TokenAlterations == {"corrupt", "truncated", "malformed"}

AlteredToken(token, how) ==
    CASE how = "intact"    -> token
      [] how = "corrupt"   -> CorruptToken(token)
      [] how = "truncated" -> [tag |-> "short"]
      [] how = "malformed" -> [tag |-> "malformed"]

PresentToken(how) ==
    /\ bench.token # NoToken
    /\ bench' = [bench EXCEPT !.result =
                    [op |-> "validateSessionToken", how |-> how, at |-> now,
                     out |-> validateSessionToken(AlteredToken(bench.token, how), now)]]
    /\ CryptoFrame

NextCrypto ==
    \/ IssueKeyFile
    \/ \E how \in {"intact", "truncated"} \cup TamperRegions : PresentKeyFile(how)
    \/ \E expiresIn \in {NullDate, 1} : MintToken(expiresIn)
    \/ \E how \in {"intact"} \cup TokenAlterations : PresentToken(how)
    \/ Tick /\ OnlyStore

SpecCrypto == InitCrypto /\ [][NextCrypto]_vars

\* ================================================================ claims
\* what the specification calls an active session: the active flag set and
\* the record never-expiring or unexpired
Live(s, t) == s.isActive /\ (s.neverExpires \/ s.expiresAt > t)

LiveSessionsOf(S, u, t) == {s \in S : s.user = u /\ Live(s, t)}

SessionIds(S) == {s.id : s \in S}

\* the session records a step has inserted
Admitted == {n \in sessions' : n.id \notin SessionIds(sessions)}

Passes(S, token, t) == protect(S, token, t).status = 200

\* C1: every principal has at most deviceLimit sessions that are active
\* (flag set, and never-expiring or unexpired), whatever mix of new and
\* already-seen devices its completed logins came from.
C1_DeviceLimit ==
    \A u \in Users :
        Cardinality(LiveSessionsOf(sessions, u, now)) <= users[u].deviceLimit

\* the case in which logins that run one after the other keep the limit:
\* no session record of u has reached its expiry and no two records of u
\* name the same device
C2_DistinctUnexpired(u) ==
    /\ now < SessionRecordTTL
    /\ \A a, b \in sessions :
          (a.user = u /\ b.user = u /\ a.deviceFingerprint = b.deviceFingerprint) => a = b

\* C2: when the steps of a principal's logins interleave (count, eviction
\* and insert of one between those of another), the principal still has at
\* most deviceLimit active sessions, as it has when the same logins from
\* pairwise different devices run one after the other.
C2_AtomicAdmission ==
    \A u \in Users :
        C2_DistinctUnexpired(u) =>
            Cardinality(LiveSessionsOf(sessions, u, now)) <= users[u].deviceLimit

\* C3: when a principal with device limit N has N active sessions from N
\* distinct fingerprints, an admission from a further fingerprint terminates
\* exactly one of them, one of earliest createdAt, with reason device_limit,
\* leaves the others active, and the principal then has exactly N active
\* sessions.
C3_Case(u) ==
    LET live == LiveSessionsOf(sessions, u, now)
        fps  == {s.deviceFingerprint : s \in live}
    IN  /\ Cardinality(live) = users[u].deviceLimit
        /\ Cardinality(fps) = Cardinality(live)
        /\ \E n \in Admitted : n.user = u /\ n.deviceFingerprint \notin fps

C3_Effect(u) ==
    LET live == LiveSessionsOf(sessions, u, now)
    IN  /\ \E v \in live :
              /\ \A o \in live : v.createdAt <= o.createdAt
              /\ \E w \in sessions' :
                    w.id = v.id /\ ~w.isActive /\ w.terminatedReason = "device_limit"
              /\ \A o \in live \ {v} : o \in sessions'
        /\ Cardinality(LiveSessionsOf(sessions', u, now')) = users[u].deviceLimit

C3_EvictsOldestOnly == [][\A u \in Users : C3_Case(u) => C3_Effect(u)]_vars

\* C4: protect lets a request through exactly when validateSessionToken
\* returns claims for the token and a session record holds that very token
\* with isActive true and expiresAt in the future; every other request gets
\* 401, a corrupted token also while the session of the original is active.
C4_ProtectNeedsBoth ==
    \A token \in PresentableTokens :
        /\ Passes(sessions, token, now) <=>
              /\ validateSessionToken(token, now) # NullClaims
              /\ \E s \in sessions :
                    s.sessionToken = token /\ s.isActive /\ s.expiresAt > now
        /\ ~Passes(sessions, token, now) => protect(sessions, token, now).status = 401
        /\ token \in tokens => ~Passes(sessions, CorruptToken(token), now)

\* a token that still validates cryptographically is turned away because its
\* session was terminated, and a corrupted one while its session is active
C4_Witness ==
    /\ \E k \in tokens :
          /\ validateSessionToken(k, now) # NullClaims
          /\ \E s \in sessions : s.sessionToken = k /\ ~s.isActive /\ s.expiresAt > now
          /\ protect(sessions, k, now).status = 401
    /\ \E k \in tokens :
          /\ \E s \in sessions : s.sessionToken = k /\ s.isActive /\ s.lastActivityAt > s.createdAt
          /\ Passes(sessions, k, now)
          /\ protect(sessions, CorruptToken(k), now).status = 401

\* C5, for a principal u with device limit 1.
\* the token of a session just admitted passes protect
C5_AdmittedPasses(u) ==
    \A n \in Admitted : n.user = u => Passes(sessions', n.sessionToken, now')

\* session a is the principal's only session record and was never terminated
C5_OnlySession(u, a) ==
    /\ {s \in sessions : s.user = u} = {a}
    /\ a.isActive

\* admission b from another fingerprint ends session a with reason
\* device_limit; token a then fails protect and token b passes
C5_SecondEvictsFirst(a, b) ==
    /\ \E w \in sessions' : w.id = a.id /\ ~w.isActive /\ w.terminatedReason = "device_limit"
    /\ ~Passes(sessions', a.sessionToken, now')
    /\ Passes(sessions', b.sessionToken, now')

\* after logoutAll by the principal none of its tokens passes protect
C5_LogoutAllEndsAll(u) ==
    \A token \in tokens :
        (Passes(sessions, token, now) /\ token.payload.userId = u /\ logoutAll(token))
            => \A k \in tokens' : k.payload.userId = u => ~Passes(sessions', k, now')

\* C5 as stated: whenever admission B comes after admission A
C5_TraceAnyLaterAdmission ==
    [][\A u \in Users : users[u].deviceLimit = 1 =>
          /\ C5_AdmittedPasses(u)
          /\ \A a \in sessions, b \in Admitted :
                (C5_OnlySession(u, a) /\ b.user = u
                   /\ b.deviceFingerprint # a.deviceFingerprint)
                  => C5_SecondEvictsFirst(a, b)
          /\ C5_LogoutAllEndsAll(u)]_vars

\* C5 amended: admission B comes while session A is still unexpired
C5_TraceWhileFirstUnexpired ==
    [][\A u \in Users : users[u].deviceLimit = 1 =>
          /\ C5_AdmittedPasses(u)
          /\ \A a \in sessions, b \in Admitted :
                (C5_OnlySession(u, a) /\ a.expiresAt > now /\ b.user = u
                   /\ b.deviceFingerprint # a.deviceFingerprint)
                  => C5_SecondEvictsFirst(a, b)
          /\ C5_LogoutAllEndsAll(u)]_vars

\* the trace has run: A was evicted by B's admission, B ended by logoutAll
C5_Witness ==
    \E u \in Users : \E a, b \in sessions :
        /\ users[u].deviceLimit = 1
        /\ a.user = u /\ b.user = u
        /\ a.deviceFingerprint # b.deviceFingerprint
        /\ a.terminatedReason = "device_limit" /\ a.terminatedAt = b.createdAt
        /\ b.terminatedReason = "logout"
        /\ \A k \in tokens : ~Passes(sessions, k, now)

\* C6: a termination operation applied to a session that is already
\* terminated changes none of isActive, terminatedAt, terminatedReason (no
\* operation other than a termination writes these fields).
C6_TerminationIdempotent ==
    [][\A s \in sessions : \A w \in sessions' :
          (~s.isActive /\ w.id = s.id) =>
              /\ w.isActive = s.isActive
              /\ w.terminatedAt = s.terminatedAt
              /\ w.terminatedReason = s.terminatedReason]_vars

\* C7: a step that revokes u's key file terminates each of u's sessions that
\* was active with reason revoked; and while the key file is revoked none of
\* u's sessions is active, none of the tokens issued to u passes protect and
\* loginWithKeyFile turns away every artifact issued to u.
C7_RevokeStep(u) ==
    /\ users'[u].keyFileRevoked
    /\ ~users[u].keyFileRevoked \/ users'[u].keyFileRevokedAt # users[u].keyFileRevokedAt

C7_WhileRevoked(U, S, K, F, t, u) ==
    /\ \A s \in S : s.user = u => ~s.isActive
    /\ \A k \in K : k.payload.userId = u => ~Passes(S, k, t)
    /\ \A kf \in F : JsonParse(kf.encrypted.pt).userId = u
          => loginWithKeyFileChecks(U, kf, t).status # 200

C7_RevocationCascade ==
    [][\A u \in Users :
          /\ C7_RevokeStep(u) =>
                \A s \in sessions : (s.user = u /\ s.isActive) =>
                    \E w \in sessions' :
                        w.id = s.id /\ ~w.isActive /\ w.terminatedReason = "revoked"
          /\ users'[u].keyFileRevoked =>
                C7_WhileRevoked(users', sessions', tokens', keyFiles', now', u)]_vars

\* a principal was revoked while it had a session: the session is marked
\* revoked, its token still validates cryptographically and fails protect
C7_Witness ==
    \E u \in Users :
        /\ users[u].keyFileRevoked
        /\ \E s \in sessions :
              /\ s.user = u /\ s.terminatedReason = "revoked"
              /\ validateSessionToken(s.sessionToken, now) # NullClaims
              /\ ~Passes(sessions, s.sessionToken, now)
        /\ \E kf \in keyFiles :
              /\ JsonParse(kf.encrypted.pt).userId = u
              /\ validateKeyFile(kf, now).valid

\* C8: a superadmin's session is recorded as never-expiring and, unless
\* terminated, its token still passes protect once 24 hours have passed since
\* admission.
C8_SuperadminNeverExpires ==
    \A s \in sessions :
        (users[s.user].role = "superadmin" /\ now >= s.createdAt + SessionRecordTTL)
            => /\ s.neverExpires
               /\ s.isActive => Passes(sessions, s.sessionToken, now)

\* the payload sealed in the caller's artifact
BenchPayload == JsonParse(bench.artifact.encrypted.pt)

\* C9: validateKeyFile on an intact artifact whose payload expiresAt is in
\* the past answers invalid ("Key file has expired") when the payload role is
\* not superadmin and valid when it is; validateSessionToken on an intact
\* token whose exp has passed answers null unless the token carries the
\* neverExpires marker, and then answers the claims.
C9_ExpiryChecks ==
    LET r == bench.result
    IN  /\ (r.op = "validateKeyFile" /\ r.how = "intact"
              /\ DateParse(BenchPayload.expiresAt) < r.at)
             => IF BenchPayload.role = "superadmin"
                THEN r.out = [valid |-> TRUE, data |-> BenchPayload]
                ELSE r.out = [valid |-> FALSE, error |-> "Key file has expired"]
        /\ (r.op = "validateSessionToken" /\ r.how = "intact"
              /\ bench.token.payload.exp < r.at)
             => IF bench.token.payload.neverExpires
                THEN r.out = bench.token.payload
                ELSE r.out = NullClaims

\* an expired superadmin artifact has just been accepted, beside a token with
\* the marker whose exp has passed and which still validates
C9_Witness ==
    /\ bench.result.op = "validateKeyFile"
    /\ bench.result.how = "intact"
    /\ DateParse(BenchPayload.expiresAt) < bench.result.at
    /\ BenchPayload.role = "superadmin"
    /\ bench.result.out.valid
    /\ bench.token # NoToken
    /\ bench.token.payload.exp < now
    /\ validateSessionToken(bench.token, now) = bench.token.payload

\* a field set is valid when its expiresAt, if given, lies after t or its
\* role is superadmin
C10_ValidFields(f, t) ==
    \/ "expiresAt" \notin DOMAIN f
    \/ DateParse(f.expiresAt) > t
    \/ ("role" \in DOMAIN f /\ f.role = "superadmin")

C10_Given(f, field, default) == IF field \in DOMAIN f THEN f[field] ELSE default

\* C10: validateKeyFile of the artifact generateKeyFile made from a valid
\* field set f answers valid with the payload's userId, username, email,
\* role, deviceLimit, permissions and expiresAt equal to those of f, a field
\* left out being '' for email, 'user' for role, 3 for deviceLimit and
\* [read, write] for permissions, and with the call's fresh keyId and its
\* time as createdAt.
C10_RoundTrip ==
    LET r == bench.result
        f == bench.fields
    IN  (r.op = "validateKeyFile" /\ r.how = "intact" /\ C10_ValidFields(f, r.at))
            => /\ r.out.valid
               /\ r.out.data.userId = f.userId
               /\ r.out.data.username = f.username
               /\ r.out.data.email = C10_Given(f, "email", "")
               /\ r.out.data.role = C10_Given(f, "role", "user")
               /\ r.out.data.deviceLimit = C10_Given(f, "deviceLimit", 3)
               /\ r.out.data.permissions = C10_Given(f, "permissions", <<"read", "write">>)
               /\ "expiresAt" \in DOMAIN f => r.out.data.expiresAt = f.expiresAt
               /\ r.out.data.keyId = Fresh(nextKeyId).keyId
               /\ r.out.data.createdAt = ToISOString(bench.issuedAt)

\* an artifact made from userId and username alone has come back valid with
\* every default in its payload, after time has passed since it was issued
C10_Witness ==
    /\ bench.result.op = "validateKeyFile"
    /\ bench.result.how = "intact"
    /\ DOMAIN bench.fields = {"userId", "username"}
    /\ bench.result.at > bench.issuedAt
    /\ bench.result.out.valid
    /\ bench.result.out.data.deviceLimit = DefaultDeviceLimit
    /\ bench.result.out.data.role = "user"

\* the artifact the caller presented last
BenchPresented == Altered(bench.artifact, bench.result.how)

\* C11: a valid artifact with one byte changed in the ciphertext, auth-tag
\* or HMAC region is answered valid = false with no payload data;
\* validateKeyFile answers payload data only for an artifact whose size,
\* magic, version, HMAC and AEAD tag are all right; and an artifact whose
\* HMAC is wrong is turned away at the HMAC, before any decryption.
C11_TamperDetected ==
    LET r  == bench.result
    IN  r.op = "validateKeyFile" =>
          LET kf == BenchPresented
          IN  /\ r.how \in {"encrypted", "authTag", "signature"}
                    => (~r.out.valid /\ "data" \notin DOMAIN r.out)
              /\ "data" \in DOMAIN r.out
                    => /\ r.out.valid
                       /\ kf.size >= MinKeyFileSize
                       /\ kf.magic = "ARECAKEY"
                       /\ kf.version = KeyFileVersion
                       /\ kf.signature = generateHMAC(kf.encrypted, deriveKey(<<kf.salt, "hmac">>))
                       /\ kf.authTag = AuthTagOf(kf.encrypted)
                       /\ kf = bench.artifact
              /\ (kf.size >= MinKeyFileSize /\ kf.magic = "ARECAKEY"
                    /\ kf.version = KeyFileVersion
                    /\ kf.signature # generateHMAC(kf.encrypted, deriveKey(<<kf.salt, "hmac">>)))
                    => r.out = [valid |-> FALSE, error |-> "Invalid key file: Signature mismatch"]

\* an artifact with a changed auth tag has passed the HMAC and failed the
\* decryption, at a time at which the artifact as issued validates
C11_Witness ==
    /\ bench.result.op = "validateKeyFile"
    /\ bench.result.how = "authTag"
    /\ bench.result.out =
          [valid |-> FALSE, error |-> "Unsupported state or unable to authenticate data"]
    /\ validateKeyFile(bench.artifact, bench.result.at).valid

\* the answer of loginWithKeyFile to an artifact, as the caller sees it
C12_Answer(kf) ==
    Answer(loginWithKeyFileChecks(users, kf, now).status,
           loginWithKeyFileChecks(users, kf, now).error)

\* the artifacts validateKeyFile turns away on size, magic, version, HMAC or
\* decryption
C12_Rejected ==
    {kf \in PresentableKeyFiles \ {NoKeyFile} :
        /\ ~validateKeyFile(kf, now).valid
        /\ validateKeyFile(kf, now).error # "Key file has expired"}

\* C12: loginWithKeyFile gives the same response, status and error text, to
\* every artifact validateKeyFile turns away, whichever of the size, magic,
\* version, HMAC and decryption checks it failed.
C12_UniformRejection ==
    \A a, b \in C12_Rejected : C12_Answer(a) = C12_Answer(b)

\* the responses to the logins that fail on an unknown username, a wrong
\* password, an unregistered or revoked artifact or a disabled principal
C13_Failures ==
    {loginWithPasswordChecks(users, u, p) : u \in {x \in Users \cup {"ghost"} :
            x \in Users => users[x].passwordHash # NoHash}, p \in Passwords}
    \cup {C12_Answer(kf) : kf \in {k \in keyFiles : validateKeyFile(k, now).valid}}

\* C13: every login that fails on an unknown username, a wrong password, an
\* unregistered artifact, a revoked artifact or a disabled principal gets
\* one and the same response, status and message.
C13_UniformFailure ==
    Cardinality({a \in C13_Failures : a.status # 200}) <= 1

\* C14: while a principal has no stored password hash, loginWithPassword
\* turns it away whatever password is given, with the explicit error
\* "Password login not enabled ...", which is not the error a wrong password
\* gets, and creates no session; once a password has been set the login with
\* that password is no longer turned away for want of a password.
C14_NoPasswordNoLogin ==
    [][\A u \in Users :
          /\ users[u].passwordHash = NoHash =>
                /\ \A password \in Passwords :
                      /\ loginWithPasswordChecks(users, u, password) =
                            Answer(401, "Password login not enabled for this account. Use key file.")
                      /\ loginWithPasswordChecks(users, u, password) #
                            Answer(401, "Invalid username or password")
                /\ \A n \in Admitted : n.user # u
          /\ \A password \in Passwords :
                users[u].passwordHash = hashPassword(password, u) =>
                    /\ loginWithPasswordChecks(users, u, password).status \in {200, 403}
                    /\ \A other \in Passwords \ {password} :
                          loginWithPasswordChecks(users, u, other) =
                              Answer(401, "Invalid username or password")]_vars

\* a principal that logged in by password has had its password removed and
\* is now turned away, while another principal's password has been changed
C14_Witness ==
    \E u, v \in Users :
        /\ users[u].passwordHash = NoHash
        /\ \E s \in sessions : s.user = u
        /\ loginWithPasswordChecks(users, u, "pw1").status = 401
        /\ users[v].passwordHash = hashPassword("pw2", v)

\* a session whose expiry has passed
C15_Expired(s, t) == ~s.neverExpires /\ s.expiresAt <= t

\* what the read paths see of the sessions other than s
C15_Without(S, s) == S \ {s}

\* C15: a session whose expiresAt has passed, its isActive flag still true,
\* counts as inactive on every read path: protect's lookup does not find it,
\* countActiveDevices, the same-fingerprint lookup, getActiveSessionsForUser,
\* getActiveSessions and getSessionStats answer as if it were not there, and
\* terminateOldestSession does not choose it as the session to evict.
C15_LazyExpiry ==
    [][\A s \in sessions : (s.isActive /\ C15_Expired(s, now)) =>
          /\ s \notin ProtectLookup(sessions, s.sessionToken, now)
          /\ countActiveDevices(sessions, s.user, now) =
                countActiveDevices(C15_Without(sessions, s), s.user, now)
          /\ s \notin FindExistingSession(sessions, s.user, s.deviceFingerprint, now)
          /\ s \notin getActiveSessionsForUser(sessions, s.user, now)
          /\ s \notin getActiveSessions(sessions, now)
          /\ getSessionStats(sessions, now) = getSessionStats(C15_Without(sessions, s), now)
          /\ \A w \in sessions' :
                (w.id = s.id /\ ~w.isActive) => w.terminatedReason # "device_limit"]_vars

\* C16: validateSessionToken answers null, and nothing else, for a token
\* that is malformed, cut short or altered; for a token generateSessionToken
\* minted it answers the minted claims as long as exp has not passed, and
\* whatever exp is when the claims carry neverExpires; the marker is set
\* exactly for the role superadmin, whose default duration is the 100-year
\* constant while every other role gets 30 days.
C16_TokenValidation ==
    LET r == bench.result
    IN  /\ r.op = "validateSessionToken" =>
              /\ r.how \in TokenAlterations => r.out = NullClaims
              /\ r.how = "intact" =>
                    r.out = IF bench.token.payload.neverExpires
                               \/ bench.token.payload.exp >= r.at
                            THEN bench.token.payload
                            ELSE NullClaims
        /\ bench.token # NoToken =>
              /\ bench.token.payload.userId = "u1"
              /\ bench.token.payload.role = OrString(bench.fields, "role", "user")
              /\ bench.token.payload.neverExpires <=> bench.token.payload.role = "superadmin"
        /\ \A role \in Roles :
              LET k == generateSessionToken(
                           [userId |-> "u1", role |-> role,
                            deviceFingerprint |-> generateDeviceFingerprint("da")],
                           NullDate, now, nextId)
              IN  /\ k.payload.neverExpires <=> role = "superadmin"
                  /\ k.payload.exp - k.payload.iat =
                        IF role = "superadmin" THEN TokenTTLSuperadmin ELSE TokenTTLUser
                  /\ validateSessionToken(k, now) = k.payload

\* a superadmin token minted with a short duration has been presented after
\* its exp and answered with its claims
C16_Witness ==
    /\ bench.result.op = "validateSessionToken"
    /\ bench.result.how = "intact"
    /\ bench.token.payload.neverExpires
    /\ bench.token.payload.exp < bench.result.at
    /\ bench.result.out = bench.token.payload

\* ------------------------------------------------------------------ C17
\* the principal and the identifier an issued key file was made for
C17_Owner(kf) == JsonParse(kf.encrypted.pt).userId

C17_KeyId(kf) == JsonParse(kf.encrypted.pt).keyId

\* an issued key file whose identifier is no longer the one on record
C17_Superseded(U, kf) == U[C17_Owner(kf)].keyFileId # C17_KeyId(kf)

\* C17: when regenerateKeyFile completes for a principal (its keyFileId
\* changes), every session of the principal that was active is terminated,
\* the key file returned by the call is accepted by loginWithKeyFile for
\* that principal, and from then on every key file issued earlier carries
\* an identifier that matches no principal record and is refused.
C17_RegenerationSupersedes ==
    [][ /\ \A u \in Users :
             users'[u].keyFileId # users[u].keyFileId =>
               /\ \A s \in sessions :
                     s.user = u /\ s.isActive =>
                       \E n \in sessions' : /\ n.id = s.id
                                            /\ ~n.isActive
                                            /\ n.terminatedReason = "revoked"
               /\ \E kf \in keyFiles' \ keyFiles :
                     /\ C17_Owner(kf) = u
                     /\ loginWithKeyFileChecks(users', kf, now') =
                          [status |-> 200, error |-> "", found |-> {u}]
               /\ \A kf \in keyFiles :
                     C17_Owner(kf) = u => C17_Superseded(users', kf)
        /\ \A kf \in keyFiles' :
             C17_Superseded(users', kf) =>
               /\ \A v \in Users : users'[v].keyFileId # C17_KeyId(kf)
               /\ loginWithKeyFileChecks(users', kf, now').status = 401
      ]_vars

\* a regenerated principal: the earlier key file is refused as unregistered,
\* the later one is accepted, and a session was terminated by the call
C17_Witness ==
    \E old \in keyFiles, new \in keyFiles :
        /\ C17_Owner(old) = C17_Owner(new)
        /\ C17_Superseded(users, old)
        /\ loginWithKeyFileChecks(users, old, now).error =
             "Key file not registered or has been revoked"
        /\ loginWithKeyFileChecks(users, new, now).status = 200
        /\ \E s \in sessions : /\ s.user = C17_Owner(old)
                                /\ ~s.isActive
                                /\ s.terminatedReason = "revoked"

\* ------------------------------------------------------------------ C18
\* the revocation record of a principal record is present
C18_Recorded(usr) ==
    /\ usr.keyFileRevoked
    /\ usr.keyFileRevokedAt # NullDate
    /\ usr.keyFileRevokedReason # "null"

\* C18: no two principals hold the same keyFileId, and a revocation record
\* (the keyFileRevoked flag with its time and reason), once written, is
\* still present after every later operation, regenerateKeyFile included.
C18_RevocationKept ==
    [][ /\ \A u \in Users, v \in Users :
             u # v => users'[u].keyFileId # users'[v].keyFileId
        /\ \A u \in Users :
             C18_Recorded(users[u]) => C18_Recorded(users'[u])
      ]_vars

\* ------------------------------------------------------------------ C19
\* the existing session records a step modifies or removes
C19_Touched == {s \in sessions : s \notin sessions'}

\* the fingerprints of the principal's active unexpired sessions
C19_LiveDevices(u) == {s.deviceFingerprint : s \in LiveSessionsOf(sessions, u, now)}

\* the admission of session n meets a full device limit from a device
\* that has no active unexpired session
C19_Collision(n) ==
    /\ Cardinality(C19_LiveDevices(n.user)) >= users[n.user].deviceLimit
    /\ n.deviceFingerprint \notin C19_LiveDevices(n.user)

\* C19: an admission modifies an existing session only when the principal's
\* active unexpired devices number at least deviceLimit and none of the
\* principal's active unexpired sessions has the new fingerprint; it then
\* terminates exactly one session, one of the same principal that was
\* active, and otherwise leaves every existing session as it was; sessions
\* of other principals are never changed.
C19_AdmissionFrame ==
    [][ \A n \in Admitted :
          /\ \A s \in C19_Touched : s.user = n.user
          /\ IF C19_Collision(n)
             THEN \E v \in sessions :
                     /\ C19_Touched = {v}
                     /\ v.user = n.user /\ v.isActive
                     /\ \E w \in sessions' :
                           /\ w = [v EXCEPT !.isActive = FALSE,
                                            !.terminatedReason = w.terminatedReason,
                                            !.terminatedAt = w.terminatedAt]
                           /\ w.terminatedReason = "device_limit"
                     /\ Cardinality(sessions') = Cardinality(sessions) + 1
             ELSE sessions \subseteq sessions'
      ]_vars

\* an eviction has happened while another principal holds an active session
C19_Witness ==
    \E v \in sessions, o \in sessions, n \in sessions :
        /\ v.user = n.user /\ o.user # n.user
        /\ ~v.isActive /\ v.terminatedReason = "device_limit"
        /\ Live(o, now) /\ Live(n, now)
        /\ n.createdAt >= o.createdAt /\ n.id > v.id /\ n.id > o.id

\* ------------------------------------------------------------------ C20
\* C20: for every token that passes protect, the session collection protect
\* leaves differs from the one it found only in the lastActivityAt of the
\* session matched by the token (isActive, expiresAt, terminatedReason and
\* every other session are as before); and every session record still
\* expires SessionRecordTTL after its creation, whatever activity it saw.
C20_TouchFrame ==
    /\ \A s \in sessions :
          /\ s.expiresAt = s.createdAt + SessionRecordTTL
          /\ s.lastActivityAt >= s.createdAt
    /\ \A token \in PresentableTokens :
          Passes(sessions, token, now) =>
            \E m \in sessions :
               /\ m.sessionToken = token
               /\ protect(sessions, token, now).sessions =
                    (sessions \ {m}) \cup {[m EXCEPT !.lastActivityAt = now]}

\* a session touched after its creation, still active with its first expiry
C20_Witness ==
    \E s \in sessions :
        /\ s.lastActivityAt > s.createdAt
        /\ s.isActive /\ s.terminatedReason = "null"
        /\ s.expiresAt = s.createdAt + SessionRecordTTL
        /\ Passes(sessions, s.sessionToken, now)

\* ------------------------------------------------------------------ C21
\* session s is terminated by the step with reason logout
C21_LoggedOut(s) ==
    \E n \in sessions' : /\ n.id = s.id
                         /\ ~n.isActive
                         /\ n.terminatedReason = "logout"
                         /\ n.terminatedAt = now

\* session s is as it was, but for the activity time of a touch
C21_Kept(s) ==
    \E n \in sessions' : n = [s EXCEPT !.lastActivityAt = n.lastActivityAt]

\* the sessions whose token the caller presents
C21_Presented(token) == {s \in sessions : s.sessionToken = token}

\* C21: a logout step terminates, with reason logout, the one active session
\* whose token the caller presents and no other; a logoutAll step
\* terminates, with reason logout, the active sessions of the caller's
\* principal and no other; in both, every session of another principal is
\* exactly as before, and a caller whose token fails protect changes nothing.
C21_LogoutFrame ==
    [][ \A token \in tokens :
          /\ logout(token) =>
                IF Passes(sessions, token, now)
                THEN /\ Cardinality(C21_Presented(token)) = 1
                     /\ \A s \in C21_Presented(token) : C21_LoggedOut(s)
                     /\ \A s \in sessions \ C21_Presented(token) : s \in sessions'
                ELSE sessions' = sessions
          /\ logoutAll(token) =>
                IF Passes(sessions, token, now)
                THEN \A c \in C21_Presented(token) : \A s \in sessions :
                        /\ s.user = c.user /\ s.isActive  => C21_LoggedOut(s)
                        /\ s.user = c.user /\ ~s.isActive => s \in sessions'
                        /\ s.user # c.user => s \in sessions'
                ELSE sessions' = sessions
      ]_vars

\* one principal was logged out of two sessions at once while a session
\* of the other principal stays active and untouched
C21_Witness ==
    \E a \in sessions, b \in sessions, o \in sessions :
        /\ a.id # b.id /\ a.user = b.user /\ o.user # a.user
        /\ ~a.isActive /\ ~b.isActive
        /\ a.terminatedReason = "logout" /\ b.terminatedReason = "logout"
        /\ a.terminatedAt = b.terminatedAt
        /\ a.terminatedAt > a.createdAt /\ a.terminatedAt > b.createdAt
        /\ Live(o, now) /\ o.createdAt < a.terminatedAt
        /\ o.lastActivityAt = o.createdAt

\* ------------------------------------------------------------------ C22
\* a call of one of the admin routes with the token
C22_AdminCall(token) ==
    \/ \E role \in CreateRoles : createUser(token, "u3", "pw1", role, 0, 0)
    \/ revokeUserKeyFile(token, "Revoked by admin")
    \/ \E days \in RegenerateDays : regenerateKeyFile(token, days)
    \/ \E removePassword \in BOOLEAN : updateUserPassword(token, "pw2", removePassword)
    \/ terminateSession(token)

\* what an admin route answers to the token
C22_Answer(token) == AdminGate(protect(sessions, token, now))

\* session s is marked terminated by an administrator
C22_AdminAction(s) ==
    \E n \in sessions' : /\ n.id = s.id
                         /\ ~n.isActive
                         /\ n.terminatedReason = "admin_action"

\* what holds of terminateSession called by an administrator: each session
\* is kept as it was or marked admin_action, whoever owns it
C22_AdminTerminates(token) ==
    (token.payload.role \in AdminRoles /\ Passes(sessions, token, now)
        /\ terminateSession(token)) =>
      /\ C22_Answer(token).status = 200
      /\ \A s \in sessions : C21_Kept(s) \/ C22_AdminAction(s)
      /\ Cardinality({s \in sessions : ~C21_Kept(s)}) <= 1
      /\ users' = users

\* C22: an admin route called with a token of role user answers 403 (401
\* if the token no longer passes protect) and changes no principal record,
\* issues no key file and creates, removes or terminates no session: the
\* only change is the lastActivityAt of the caller's own session, written
\* by protect before the role is looked at. terminateSession called by an
\* admin or superadmin marks the session it names, whichever principal owns
\* it, with reason admin_action and changes no other.
C22_AdminOnly ==
    [][ \A token \in tokens :
          /\ (token.payload.role = "user" /\ C22_AdminCall(token)) =>
                /\ C22_Answer(token).status =
                      IF Passes(sessions, token, now) THEN 403 ELSE 401
                /\ users' = users
                /\ keyFiles' = keyFiles
                /\ Cardinality(sessions') = Cardinality(sessions)
                /\ \A s \in sessions :
                      IF s.sessionToken = token /\ Passes(sessions, token, now)
                      THEN [s EXCEPT !.lastActivityAt = now] \in sessions'
                      ELSE s \in sessions'
          /\ C22_AdminTerminates(token)
      ]_vars

\* C22 as stated: a caller of role user changes no session record at all
C22_AdminOnlyNoChange ==
    [][ \A token \in tokens :
          /\ (token.payload.role = "user" /\ C22_AdminCall(token)) =>
                /\ C22_Answer(token).status \in {401, 403}
                /\ users' = users
                /\ sessions' = sessions
          /\ C22_AdminTerminates(token)
      ]_vars

\* a plain user has called an admin route after logging in (the touch is
\* the only trace), and an administrator with a live session has
\* terminated a session of that user
C22_Witness ==
    \E s \in sessions, k \in sessions, a \in sessions :
        /\ s.user = "u1" /\ users["u1"].role = "user"
        /\ s.isActive /\ s.lastActivityAt > s.createdAt
        /\ k.user = "u1" /\ ~k.isActive /\ k.terminatedReason = "admin_action"
        /\ a.user = "u2" /\ Live(a, now)
        /\ users["u1"].passwordHash # NoHash /\ ~users["u1"].keyFileRevoked
        /\ DOMAIN users = Users

\* ------------------------------------------------------------------ C23
C23_Reasons == {"logout", "expired", "revoked", "device_limit", "admin_action"}

\* a session record is either active with no termination data or inactive
\* with a termination time and a reason
C23_WellFormed(s) ==
    IF s.isActive
    THEN s.terminatedAt = NullDate /\ s.terminatedReason = "null"
    ELSE s.terminatedAt # NullDate /\ s.terminatedReason \in C23_Reasons

\* C23: no step makes an inactive session active again, not even the save
\* of a touch whose request read the session while it was still active;
\* and after every step each session is inactive exactly when it carries a
\* terminatedAt and a terminatedReason among logout, expired, revoked,
\* device_limit and admin_action.
C23_OneWayLifecycle ==
    [][ /\ \A s \in sessions : \A n \in sessions' :
              (n.id = s.id /\ ~s.isActive) => ~n.isActive
        /\ \A n \in sessions' : C23_WellFormed(n)
      ]_vars

\* a touch read the session, the session was terminated, and the touch
\* was saved later: the record is still terminated
C23_Witness ==
    \E s \in sessions :
        /\ ~s.isActive
        /\ s.terminatedAt # NullDate
        /\ s.lastActivityAt > s.terminatedAt

\* ------------------------------------------------------------------ C24
\* the principals a step creates
C24_Created == DOMAIN users' \ DOMAIN users

C24_Elevated == {"admin", "superadmin"}

\* C24: a createUser call by a caller whose token role is not superadmin
\* creates no principal of role admin or superadmin.
C24_NoElevatedCreation ==
    [][ \A token \in tokens, password \in CreatePasswords, role \in CreateRoles :
          (token.payload.role # "superadmin"
              /\ createUser(token, "u3", password, role, 0, 0)) =>
            \A u \in C24_Created : users'[u].role \notin C24_Elevated
      ]_vars

\* ------------------------------------------------------------------ C25
\* C25: initialization creates a superadmin only while none exists, so
\* under every interleaving of initializeSuperAdmin calls at most one
\* principal of role superadmin is on record, and no step taken while a
\* superadmin exists creates a principal.
C25_SingleSuperAdmin ==
    [][ /\ Cardinality(ExistingSuperAdmin(users')) <= 1
        /\ ExistingSuperAdmin(users) # {} => DOMAIN users' = DOMAIN users
      ]_vars

\* ------------------------------------------------------------------ C26
C26_Min(a, b) == IF a <= b THEN a ELSE b

\* C26: of the requests an address sends to a limited route within one
\* window, exactly the first RouteLimit (5 on the login routes, 10 on /init)
\* are let through and every later one is answered 429; a request sent
\* after the window has elapsed is let through and starts a new window.
C26_OwnLimitPerRoute ==
    \A route \in LimitedRoutes, ip \in ClientIps :
        attempts[route][ip].passed =
            C26_Min(attempts[route][ip].passed + attempts[route][ip].rejected,
                    RouteLimit(route))

\* ------------------------------------------------------------------ C27
\* C27: while a principal's keyFileRevoked flag is set no step inserts a
\* session for that principal, a login that passed its checks before the
\* revocation included.
C27_NoSessionWhileRevoked ==
    [][ \A n \in Admitted : ~users[n.user].keyFileRevoked ]_vars

\* ------------------------------------------------------------------ C28
\* the password login is one the handler has to refuse
C28_PasswordRejected(username, password) ==
    \/ username = ""
    \/ password = ""
    \/ username \notin DOMAIN users
    \/ ~users[username].isActive
    \/ users[username].passwordHash = NoHash
    \/ ~verifyPassword(password, users[username].passwordHash)
    \/ users[username].keyFileRevoked

\* the key-file login is one the handler has to refuse
C28_KeyFileRejected(keyFile) ==
    \/ keyFile = NoKeyFile
    \/ ~validateKeyFile(keyFile, now).valid
    \/ \A u \in DOMAIN users :
          \/ users[u].keyFileId # validateKeyFile(keyFile, now).data.keyId
          \/ users[u].keyFileRevoked
          \/ ~users[u].isActive

\* no session is created or terminated, no login is counted
C28_NoEffect ==
    /\ SessionIds(sessions') = SessionIds(sessions)
    /\ \A s \in sessions : \E n \in sessions' : n.id = s.id /\ n.isActive = s.isActive
    /\ \A u \in DOMAIN users :
          /\ u \in DOMAIN users'
          /\ users'[u].loginCount = users[u].loginCount
          /\ users'[u].lastLoginAt = users[u].lastLoginAt

\* C28: a login that is rejected (missing fields, invalid or expired
\* artifact, unregistered or revoked artifact, unknown or disabled user,
\* wrong or absent password) creates no session, terminates no session and
\* leaves loginCount and lastLoginAt as they were.
C28_RejectedLoginFrame ==
    [][ /\ \A username \in Usernames, password \in Passwords \cup {""} :
              loginWithPassword(username, password, MaxSessions)
                  /\ C28_PasswordRejected(username, password)
              => C28_NoEffect
        /\ \A keyFile \in LoginKeyFiles :
              loginWithKeyFile(keyFile, MaxSessions) /\ C28_KeyFileRejected(keyFile)
              => C28_NoEffect ]_vars

\* a principal that has logged in and was then revoked: its password and
\* its artifact are refused from here on
C28_Witness ==
    \E u \in Users :
        /\ users[u].keyFileRevoked
        /\ users[u].loginCount > 0
        /\ \E s \in sessions : s.user = u /\ s.terminatedReason = "revoked"

\* ------------------------------------------------------------------ C29
C29_SuperAdmins(U) == {u \in DOMAIN U : U[u].role = "superadmin"}

\* C29: when every caller is an admin and none a superadmin, no step
\* changes the passwordHash, keyFileId or keyFileRevoked of a superadmin
\* principal, and no step hands out a key artifact that logs in as a
\* superadmin principal.
C29_AdminCannotTouchSuperAdmin ==
    [][ (\A k \in tokens : k.payload.role = "admin") =>
        /\ \A u \in C29_SuperAdmins(users) :
              /\ users'[u].passwordHash = users[u].passwordHash
              /\ users'[u].keyFileId = users[u].keyFileId
              /\ users'[u].keyFileRevoked = users[u].keyFileRevoked
        /\ \A k \in keyFiles' \ keyFiles :
              validateKeyFile(k, now').valid =>
                  \A u \in findByKeyFileId(users', validateKeyFile(k, now').data.keyId) :
                      users'[u].role # "superadmin" ]_vars

\* ------------------------------------------------------------------ C30
\* the admissions of u so far: one token was issued for each
C30_Admissions(u) == {k \in tokens : k.payload.userId = u}

\* C30: once no login is in flight, every principal's loginCount is the
\* number of its successful admissions, also when two of them overlapped.
C30_LoginCountExact ==
    InFlight = {} =>
        \A u \in Users : users[u].loginCount = Cardinality(C30_Admissions(u))

====
